---- MODULE Spec2Model ----
(***************************************************************************)
(* A model of the SELECT execution driver of gluesql:                      *)
(*   core/src/executor/select/mod.rs   get_labels, into_rows,              *)
(*                                     select_with_labels                  *)
(*   src/executor/fetch.rs             fetch (filtered row fetch)          *)
(*   core/src/ast_builder/expr/mod.rs  impl TryFrom<ExprNode> for Expr     *)
(*                                                                         *)
(* Results (Rust's Result) are records [kind |-> "Ok", ...] or             *)
(* [kind |-> "Err", error |-> ...]; Option::None is the string "None".     *)
(***************************************************************************)
EXTENDS Integers, Sequences, FiniteSets, TLC

VARIABLES
    \* into_rows: the scan over the VALUES tuples
    first_len,      \* exprs_list[0].len()
    labels,         \* the synthesized labels column1, column2, ...
    column_types,   \* the scan's state: Vec<Option<DataType>>
    idx,            \* number of tuples the scan has consumed
    n_rows,         \* number of items the scan has produced
    cur_exprs,      \* the tuple consumed last
    cur_item,       \* the item produced last (Result<Row>)
    \* get_labels: its arguments and its result
    projection,     \* &[SelectItem]
    table_alias,    \* &str
    columns,        \* &[String]
    join_columns,   \* Option<&[(&String, Vec<String>)]>
    labels_result,  \* Result<Vec<String>>
    lpc,            \* "call" before get_labels returns, "done" after
    \* select_with_labels and the consumer of its row stream
    query,          \* &Query
    storage,        \* the rows of the base relation, as the storage yields them
    spc,            \* "call", then "stream" (Ok returned) or "failed" (Err returned)
    sel_error,      \* the error returned, "" when none
    sel_labels,     \* the labels returned
    stream,         \* the items the returned stream has still to yield
    out,            \* the items the consumer has received, in order
    n_evaluated,    \* rows the call itself evaluated before it returned
    with_labels,    \* the with_labels argument (select passes false)
    \* the filtering step, polled item by item
    f_rows,         \* the upstream: what storage.get_data / the join yields
    f_where,        \* the predicate of the Filter
    w_pos,          \* upstream items the WHERE stage has consumed
    w_out,          \* items the WHERE stage has emitted
    f_pos,          \* upstream items fetch has consumed
    f_out,          \* items fetch has emitted
    \* Expr::try_from(ExprNode)
    expr_node,      \* the ExprNode to lower
    lowered,        \* Ok(expr), Err(error) or a panic
    epc             \* "call" before try_from returns, "done" after

scanVars == <<first_len, labels, column_types, idx, n_rows, cur_exprs, cur_item>>
labelVars == <<projection, table_alias, columns, join_columns, labels_result, lpc>>

selVars ==
    <<query, storage, spc, sel_error, sel_labels, stream, out, n_evaluated,
      with_labels>>

filterVars == <<f_rows, f_where, w_pos, w_out, f_pos, f_out>>
exprVars == <<expr_node, lowered, epc>>

vars == <<scanVars, labelVars, selVars, filterVars, exprVars>>

None == "None"

Ok(v) == [kind |-> "Ok", value |-> v]
Err(e) == [kind |-> "Err", error |-> e]

Min(a, b) == IF a < b THEN a ELSE b
Max(a, b) == IF a > b THEN a ELSE b

(***************************************************************************)
(* Bounds of the model.                                                    *)
(***************************************************************************)
MaxArity == 2
MaxTuples == 3
MaxItems == 2
MaxJoins == 2
MaxRows == 3
MaxLimit == 2
MaxDepth == 2
MaxList == 2

(***************************************************************************)
(* Literal expressions of a VALUES tuple.  A number literal is kept in     *)
(* tenths (10 is 1, 15 is 1.5).  An identifier has no row context on the   *)
(* VALUES path, so its stateless evaluation fails.                         *)
(***************************************************************************)
NumberLit(t) == [tag |-> "Literal", lit |-> "Number", tenths |-> t]
NullLit == [tag |-> "Literal", lit |-> "Null", tenths |-> 0]
Ident == [tag |-> "Identifier", lit |-> "id", tenths |-> 0]

Literals == {NumberLit(10), NumberLit(15), NullLit, Ident}

I64(n) == [ty |-> "I64", tenths |-> 10 * n]
F64(t) == [ty |-> "F64", tenths |-> t]
Null == [ty |-> "Null", tenths |-> 0]

\* evaluate_stateless(None, expr)
evaluate_stateless(expr) ==
    IF expr.tag = "Literal" THEN Ok(expr) ELSE Err("ValueNotFound")

\* Value::try_from(Evaluated): the value a literal has on its own
try_into(evaluated) ==
    CASE evaluated.lit = "Null" -> Ok(Null)
      [] evaluated.lit = "Number" /\ evaluated.tenths % 10 = 0
            -> Ok(I64(evaluated.tenths \div 10))
      [] OTHER -> Ok(F64(evaluated.tenths))

\* Value::get_type: Option<DataType>
get_type(value) ==
    CASE value.ty = "I64" -> "Int"
      [] value.ty = "F64" -> "Float"
      [] OTHER -> None

\* Evaluated::try_into_value(data_type, nullable)
try_into_value(evaluated, data_type, nullable) ==
    CASE evaluated.lit = "Null"
            -> IF nullable THEN Ok(Null) ELSE Err("NullValueOnNotNullField")
      [] data_type = "Int" /\ evaluated.tenths % 10 = 0
            -> Ok(I64(evaluated.tenths \div 10))
      [] data_type = "Float" -> Ok(F64(evaluated.tenths))
      [] OTHER -> Err("IncompatibleLiteralForDataType")

Tuples == UNION {[1..n -> Literals] : n \in 1..MaxArity}

Labels(n) == [i \in 1..n |-> "column" \o ToString(i)]

(***************************************************************************)
(* into_rows.  ColumnValue is the closure applied to one (column_type,     *)
(* expr) pair; MapColumns is the zip/map/collect over a tuple, which stops *)
(* at the first failing column and leaves the later column types alone.    *)
(***************************************************************************)
\* a variant that infers the type anew from every row
ColumnValueReinfer(column_type, expr) ==
    LET evaluated == evaluate_stateless(expr) IN
    IF evaluated.kind = "Err" THEN [type |-> column_type, result |-> evaluated]
    ELSE LET value == try_into(evaluated.value) IN
         [type |-> get_type(value.value), result |-> value]

ColumnValue(column_type, expr) ==
    LET evaluated == evaluate_stateless(expr) IN
    IF evaluated.kind = "Err" THEN [type |-> column_type, result |-> evaluated]
    ELSE IF column_type # None
    THEN [type |-> column_type,
          result |-> try_into_value(evaluated.value, column_type, TRUE)]
    ELSE LET value == try_into(evaluated.value) IN
         IF value.kind = "Err" THEN [type |-> column_type, result |-> value]
         ELSE [type |-> get_type(value.value), result |-> value]

RECURSIVE MapColumns(_, _, _, _)
MapColumns(types, exprs, j, acc) ==
    IF j > Min(Len(types), Len(exprs))
    THEN [types |-> types, item |-> Ok(acc)]
    ELSE LET c == ColumnValue(types[j], exprs[j]) IN
         IF c.result.kind = "Err"
         THEN [types |-> types, item |-> c.result]
         ELSE MapColumns([types EXCEPT ![j] = c.type], exprs, j + 1,
                         Append(acc, c.result.value))

\* a variant without the arity check: zip stops at the shorter side
ScanStepNoArityCheck(flen, types, exprs) == MapColumns(types, exprs, 1, <<>>)

\* the scan closure: one tuple in, one item out
ScanStep(flen, types, exprs) ==
    IF Len(exprs) # flen
    THEN [types |-> types, item |-> Err("NumberOfValuesDifferent")]
    ELSE MapColumns(types, exprs, 1, <<>>)

RECURSIVE ScanAll(_, _, _, _, _)
ScanAll(flen, types, exprs_list, i, rows) ==
    IF i > Len(exprs_list) THEN rows
    ELSE LET s == ScanStep(flen, types, exprs_list[i]) IN
         ScanAll(flen, s.types, exprs_list, i + 1, Append(rows, s.item))

into_rows(exprs_list) ==
    LET flen == Len(exprs_list[1]) IN
    [rows |-> ScanAll(flen, [j \in 1..flen |-> None], exprs_list, 1, <<>>),
     labels |-> Labels(flen)]

(***************************************************************************)
(* get_labels.  A SelectItem is [item, name]: name is the target of a      *)
(* qualified wildcard (the empty string is an ObjectName without parts) or *)
(* the label of an expression.  join_columns is [is_some, list], list a    *)
(* sequence of [alias, columns].                                           *)
(***************************************************************************)
Wildcard == [item |-> "Wildcard", name |-> "*"]
QualifiedWildcard(target) == [item |-> "QualifiedWildcard", name |-> target]
ExprItem(label) == [item |-> "Expr", name |-> label]

Some(list) == [is_some |-> TRUE, list |-> list]
NoJoinColumns == [is_some |-> FALSE, list |-> <<>>]

\* get_name(target): the last part of the object name
get_name(target) == IF target = "" THEN Err("Unreachable") ELSE Ok(target)

\* join_columns.iter().flat_map(|(_, columns)| to_labels(columns))
RECURSIVE JoinLabels(_, _)
JoinLabels(list, i) ==
    IF i > Len(list) THEN <<>> ELSE list[i].columns \o JoinLabels(list, i + 1)

\* join_columns.iter().find(|(table_alias, _)| table_alias == &target)
RECURSIVE FindJoin(_, _, _)
FindJoin(list, target, i) ==
    IF i > Len(list) THEN 0
    ELSE IF list[i].alias = target THEN i
    ELSE FindJoin(list, target, i + 1)

\* a variant whose unqualified wildcard lists the joined relations first
ItemLabelsJoinsFirst(item, alias, cols, joins) ==
    CASE item.item = "Wildcard" ->
            IF joins.is_some THEN Ok(JoinLabels(joins.list, 1) \o cols)
            ELSE Ok(cols)
      [] item.item = "QualifiedWildcard" ->
            LET target == get_name(item.name) IN
            IF target.kind = "Err" THEN target
            ELSE IF alias = target.value THEN Ok(cols)
            ELSE IF joins.is_some
            THEN LET k == FindJoin(joins.list, target.value, 1) IN
                 IF k = 0 THEN Err("TableAliasNotFound(" \o target.value \o ")")
                 ELSE Ok(joins.list[k].columns)
            ELSE Ok(<<>>)
      [] OTHER -> Ok(<<item.name>>)

\* the flat_map closure of get_labels: the labels of one projection item
ItemLabels(item, alias, cols, joins) ==
    CASE item.item = "Wildcard" ->
            IF joins.is_some THEN Ok(cols \o JoinLabels(joins.list, 1))
            ELSE Ok(cols)
      [] item.item = "QualifiedWildcard" ->
            LET target == get_name(item.name) IN
            IF target.kind = "Err" THEN target
            ELSE IF alias = target.value THEN Ok(cols)
            ELSE IF joins.is_some
            THEN LET k == FindJoin(joins.list, target.value, 1) IN
                 IF k = 0 THEN Err("TableAliasNotFound(" \o target.value \o ")")
                 ELSE Ok(joins.list[k].columns)
            ELSE Ok(<<>>)
      [] OTHER -> Ok(<<item.name>>)

\* .collect::<Result<_>>(): the labels in order, or the first error
RECURSIVE CollectLabels(_, _, _, _, _, _)
CollectLabels(items, alias, cols, joins, i, acc) ==
    IF i > Len(items) THEN Ok(acc)
    ELSE LET l == ItemLabels(items[i], alias, cols, joins) IN
         IF l.kind = "Err" THEN l
         ELSE CollectLabels(items, alias, cols, joins, i + 1, acc \o l.value)

get_labels(items, alias, cols, joins) ==
    CollectLabels(items, alias, cols, joins, 1, <<>>)

(***************************************************************************)
(* The inputs get_labels is called with.                                   *)
(***************************************************************************)
SeqsUpTo(S, n) == UNION {[1..k -> S] : k \in 0..n}

SelectItems ==
    {Wildcard, ExprItem("e")}
        \cup {QualifiedWildcard(t) : t \in {"t", "u", "x", ""}}

JoinEntries ==
    {[alias |-> "u", columns |-> <<"c">>],
     [alias |-> "v", columns |-> <<"d", "e">>],
     [alias |-> "u", columns |-> <<"f">>]}

JoinColumnsChoices ==
    {NoJoinColumns} \cup {Some(l) : l \in SeqsUpTo(JoinEntries, MaxJoins)}

ColumnsChoices == {<<"a">>, <<"a", "b">>}

(***************************************************************************)
(* The stages select_with_labels wires together.  A context is the row     *)
(* [a, b] of the base relation t(a, b).                                    *)
(***************************************************************************)
NoExpr == [is_some |-> FALSE, expr |-> NullLit]
SomeExpr(e) == [is_some |-> TRUE, expr |-> e]

\* the closure of Limit::new: a LIMIT/OFFSET expression as a row count
LimitValue(opt) ==
    IF ~opt.is_some THEN Ok([is_some |-> FALSE, n |-> 0])
    ELSE LET evaluated_expr == evaluate_stateless(opt.expr) IN
         IF evaluated_expr.kind = "Err" THEN evaluated_expr
         ELSE LET value == try_into(evaluated_expr.value).value IN
              IF value.ty = "I64" /\ value.tenths >= 0
              THEN Ok([is_some |-> TRUE, n |-> value.tenths \div 10])
              ELSE Err("ImpossibleCast")

\* Limit::new(limit, offset)
LimitNew(limit, offset) ==
    LET l == LimitValue(limit)
        o == LimitValue(offset)
    IN  IF l.kind = "Err" THEN l
        ELSE IF o.kind = "Err" THEN o
        ELSE Ok([limit |-> l.value, offset |-> o.value])

\* Limit::apply: skip the first offset items, then take limit items
LimitApply(lim, items) ==
    LET skipped == IF lim.offset.is_some
                   THEN SubSeq(items, lim.offset.n + 1, Len(items))
                   ELSE items
    IN  IF lim.limit.is_some
        THEN SubSeq(skipped, 1, Min(lim.limit.n, Len(skipped)))
        ELSE skipped

TableColumns == <<"a", "b">>

\* fetch_relation_columns: the base relation is t(a, b) or is unknown
fetch_relation_columns(table) ==
    IF table = "t" THEN Ok(TableColumns) ELSE Err("TableNotFound")

\* fetch_relation_rows mapped to contexts: a storage error stays an error item
FetchContexts(rows) == rows

\* Join::apply with no join clause
JoinApply(items) == Ok(items)

\* Filter::check: the WHERE predicate on one context
FilterCheck(where, ctx) ==
    CASE where = "b > 1" -> Ok(ctx.b > 1)
      [] where = "1 / (b - 1) > 0" ->
            IF ctx.b = 1 THEN Err("DivisorShouldNotBeZero")
            ELSE Ok((1 \div (ctx.b - 1)) > 0)
      [] OTHER -> Ok(TRUE)

\* a variant that drops what fails instead of passing the error on
WhereItemDropsErrors(where, item) ==
    IF item.kind = "Err" THEN <<>>
    ELSE LET pass == FilterCheck(where, item.value) IN
         IF pass.kind = "Ok" /\ pass.value THEN <<item>> ELSE <<>>

\* the try_filter_map closure: None drops the item
WhereItem(where, item) ==
    IF item.kind = "Err" THEN <<item>>
    ELSE LET pass == FilterCheck(where, item.value) IN
         IF pass.kind = "Err" THEN <<pass>>
         ELSE IF pass.value THEN <<item>> ELSE <<>>

\* rows.try_filter_map(...)
RECURSIVE WhereStage(_, _)
WhereStage(where, items) ==
    IF items = <<>> THEN <<>>
    ELSE WhereItem(where, Head(items)) \o WhereStage(where, Tail(items))

FirstError(items) ==
    LET bad == {i \in 1..Len(items) : items[i].kind = "Err"} IN
    IF bad = {} THEN 0 ELSE CHOOSE i \in bad : \A j \in bad : i <= j

\* groups of GROUP BY a with COUNT(*), in order of first appearance
RECURSIVE Groups(_, _)
Groups(items, acc) ==
    IF items = <<>> THEN acc
    ELSE LET ctx == Head(items).value
             at == {i \in 1..Len(acc) : acc[i].value.ctx.a = ctx.a}
         IN  IF at = {}
             THEN Groups(Tail(items),
                         Append(acc, Ok([aggregated |-> <<1>>, ctx |-> ctx])))
             ELSE LET i == CHOOSE i \in at : TRUE IN
                  Groups(Tail(items),
                         [acc EXCEPT ![i].value.aggregated[1] = @ + 1])

\* Aggregator::apply: a pass-through without GROUP BY, else it folds the
\* whole upstream and fails with the first upstream error
AggregateApply(group_by, items) ==
    IF ~group_by
    THEN Ok([i \in 1..Len(items) |->
               IF items[i].kind = "Err" THEN items[i]
               ELSE Ok([aggregated |-> <<>>, ctx |-> items[i].value])])
    ELSE IF FirstError(items) # 0 THEN items[FirstError(items)]
    ELSE Ok(Groups(items, <<>>))

SortKey(order_by, item) ==
    LET v == IF order_by.col = "a" THEN item.value.ctx.a ELSE item.value.ctx.b
    IN  IF order_by.desc THEN 0 - v ELSE v

\* a stable insertion of one item into a sorted sequence
RECURSIVE InsertSorted(_, _, _)
InsertSorted(order_by, sorted, item) ==
    IF sorted = <<>> THEN <<item>>
    ELSE IF SortKey(order_by, item) < SortKey(order_by, Head(sorted))
    THEN <<item>> \o sorted
    ELSE <<Head(sorted)>> \o InsertSorted(order_by, Tail(sorted), item)

RECURSIVE SortedItems(_, _, _)
SortedItems(order_by, items, acc) ==
    IF items = <<>> THEN acc
    ELSE SortedItems(order_by, Tail(items),
                     InsertSorted(order_by, acc, Head(items)))

\* Sort::apply: a pass-through without ORDER BY, else it collects the whole
\* upstream, fails with its first error, and sorts it stably
SortApply(order_by, items) ==
    IF ~order_by.is_some THEN Ok(items)
    ELSE IF FirstError(items) # 0 THEN items[FirstError(items)]
    ELSE Ok(SortedItems(order_by, items, <<>>))

\* Blend::apply: the projection of one (aggregated, context) pair; a
\* qualified wildcard of an alias the query does not have is an error
RECURSIVE BlendRow(_, _, _)
BlendRow(items, aggregated, ctx) ==
    IF items = <<>> THEN Ok(<<>>)
    ELSE LET item == Head(items)
             values ==
                CASE item.item = "Wildcard" -> Ok(<<ctx.a, ctx.b>>)
                  [] item.item = "QualifiedWildcard" ->
                        IF item.name = "t" THEN Ok(<<ctx.a, ctx.b>>)
                        ELSE Err("TableAliasNotFound(" \o item.name \o ")")
                  [] item.name = "a" -> Ok(<<ctx.a>>)
                  [] item.name = "b" -> Ok(<<ctx.b>>)
                  [] OTHER -> Ok(aggregated)
             rest == BlendRow(Tail(items), aggregated, ctx)
         IN  IF values.kind = "Err" THEN values
             ELSE IF rest.kind = "Err" THEN rest
             ELSE Ok(values.value \o rest.value)

\* .and_then(blend.apply): an error item passes through
BlendStage(items, rows) ==
    [i \in 1..Len(rows) |->
        IF rows[i].kind = "Err" THEN rows[i]
        ELSE BlendRow(items, rows[i].value.aggregated, rows[i].value.ctx)]

Failed(e) ==
    [error |-> e, labels |-> <<>>, rows |-> <<>>, evaluated |-> 0, ok |-> FALSE]

Returned(l, rows, n) ==
    [error |-> "", labels |-> l, rows |-> rows, evaluated |-> n, ok |-> TRUE]

\* a variant that builds the rows before it looks at LIMIT/OFFSET
ValuesPathRowsFirst(q) ==
    LET r == into_rows(q.values_list)
        limit == LimitNew(q.limit, q.offset)
    IN  IF limit.kind = "Err"
        THEN [Failed(limit.error) EXCEPT !.evaluated = Len(q.values_list)]
        ELSE Returned(r.labels, LimitApply(limit.value, r.rows),
                      Len(q.values_list))

\* a variant that takes LIMIT rows first and skips OFFSET rows of those
ValuesPathTakeThenSkip(q) ==
    LET limit == LimitNew(q.limit, q.offset) IN
    IF limit.kind = "Err" THEN Failed(limit.error)
    ELSE LET r == into_rows(q.values_list)
             taken == LimitApply([limit.value EXCEPT !.offset.is_some = FALSE],
                                 r.rows)
         IN  Returned(r.labels,
                      LimitApply([limit.value EXCEPT !.limit.is_some = FALSE],
                                 taken),
                      Len(q.values_list))

\* select_with_labels, SetExpr::Values
ValuesPath(q) ==
    LET limit == LimitNew(q.limit, q.offset) IN
    IF limit.kind = "Err" THEN Failed(limit.error)
    ELSE LET r == into_rows(q.values_list) IN
         Returned(r.labels, LimitApply(limit.value, r.rows), Len(q.values_list))

\* a variant that slices by OFFSET/LIMIT before it sorts and projects
SelectPathLimitBeforeSort(q, rows, labelled) ==
    LET cols == fetch_relation_columns(q.table)
        l == IF labelled
             THEN get_labels(q.projection, "t", cols.value, Some(<<>>))
             ELSE Ok(<<>>)
        limit == LimitNew(q.limit, q.offset)
        filtered == WhereStage(q.where, JoinApply(FetchContexts(rows)).value)
        aggregated == AggregateApply(q.group_by, filtered)
        sorted == SortApply(q.order_by,
                            LimitApply(limit.value, aggregated.value))
        eager == IF q.group_by \/ q.order_by.is_some THEN Len(rows) ELSE 0
    IN  IF cols.kind = "Err" THEN Failed(cols.error)
        ELSE IF l.kind = "Err" THEN Failed(l.error)
        ELSE IF limit.kind = "Err" THEN Failed(limit.error)
        ELSE IF aggregated.kind = "Err" THEN Failed(aggregated.error)
        ELSE IF sorted.kind = "Err" THEN Failed(sorted.error)
        ELSE Returned(l.value, BlendStage(q.projection, sorted.value), eager)

\* select_with_labels, SetExpr::Select
SelectPath(q, rows, labelled) ==
    LET cols == fetch_relation_columns(q.table)
        contexts == FetchContexts(rows)
        l == IF labelled
             THEN get_labels(q.projection, "t", cols.value, Some(<<>>))
             ELSE Ok(<<>>)
        limit == LimitNew(q.limit, q.offset)
        joined == JoinApply(contexts)
        filtered == WhereStage(q.where, joined.value)
        aggregated == AggregateApply(q.group_by, filtered)
        sorted == SortApply(q.order_by, aggregated.value)
        blended == BlendStage(q.projection, sorted.value)
        eager == IF q.group_by \/ q.order_by.is_some THEN Len(rows) ELSE 0
    IN  IF cols.kind = "Err" THEN Failed(cols.error)
        ELSE IF l.kind = "Err" THEN Failed(l.error)
        ELSE IF limit.kind = "Err" THEN Failed(limit.error)
        ELSE IF joined.kind = "Err" THEN Failed(joined.error)
        ELSE IF aggregated.kind = "Err" THEN Failed(aggregated.error)
        ELSE IF sorted.kind = "Err" THEN Failed(sorted.error)
        ELSE Returned(l.value, LimitApply(limit.value, blended), eager)

select_with_labels(q, rows, labelled) ==
    IF q.body = "Values" THEN ValuesPath(q) ELSE SelectPath(q, rows, labelled)

(***************************************************************************)
(* The queries and tables select_with_labels is called with.               *)
(***************************************************************************)
NoOrder == [is_some |-> FALSE, col |-> "a", desc |-> FALSE]
OrderBy(c, d) == [is_some |-> TRUE, col |-> c, desc |-> d]

LimitChoices ==
    {NoExpr, SomeExpr(NumberLit(15))}
        \cup {SomeExpr(NumberLit(10 * n)) : n \in 0..MaxLimit}

OffsetChoices ==
    {NoExpr, SomeExpr(NumberLit(0 - 10))}
        \cup {SomeExpr(NumberLit(10 * n)) : n \in 0..MaxLimit}

StreamTuples ==
    {<<NumberLit(10)>>, <<NumberLit(15)>>, <<NullLit>>,
     <<NumberLit(10), NumberLit(10)>>}

WhereChoices == {"", "b > 1", "1 / (b - 1) > 0"}

Query(body, values_list, where, group_by, order_by, items, limit, offset) ==
    [body |-> body, table |-> "t", values_list |-> values_list, where |-> where,
     group_by |-> group_by, order_by |-> order_by, projection |-> items,
     limit |-> limit, offset |-> offset]

ValuesQueries ==
    {Query("Values", v, "", FALSE, NoOrder, <<>>, l, o) :
        v \in SeqsUpTo(StreamTuples, MaxRows) \ {<<>>},
        l \in LimitChoices, o \in OffsetChoices}

PlainQueries ==
    {Query("Select", <<>>, w, FALSE, ob, p, l, o) :
        w \in WhereChoices,
        ob \in {NoOrder, OrderBy("b", FALSE), OrderBy("b", TRUE)},
        p \in {<<ExprItem("a")>>, <<Wildcard>>},
        l \in LimitChoices, o \in OffsetChoices}

GroupQueries ==
    {Query("Select", <<>>, w, TRUE, ob, <<ExprItem("a"), ExprItem("COUNT(*)")>>, l, o) :
        w \in WhereChoices,
        ob \in {NoOrder, OrderBy("a", TRUE)},
        l \in LimitChoices, o \in OffsetChoices}

\* queries whose base relation is unknown or whose projection is a
\* qualified wildcard
EdgeQueries ==
    {[Query("Select", <<>>, "", FALSE, NoOrder, p, l, o) EXCEPT !.table = t] :
        t \in {"t", "nope"},
        p \in {<<ExprItem("a")>>, <<QualifiedWildcard("t")>>,
               <<QualifiedWildcard("x")>>},
        l \in LimitChoices, o \in OffsetChoices}

TableRows ==
    {Ok([a |-> 1, b |-> 1]), Ok([a |-> 2, b |-> 3]),
     Ok([a |-> 3, b |-> 2]), Ok([a |-> 1, b |-> 3]),
     Err("StorageError")}

(***************************************************************************)
(* fetch (src/executor/fetch.rs).  An Option is a sequence of length 0     *)
(* or 1.                                                                   *)
(***************************************************************************)
\* storage.get_data(&table.name): the rows with their keys
GetData(rows) ==
    [i \in 1..Len(rows) |->
        IF rows[i].kind = "Err" THEN rows[i]
        ELSE Ok([key |-> i, row |-> rows[i].value])]

\* boolinator's as_some
as_some(pass, v) == IF pass THEN <<v>> ELSE <<>>

\* Result<Option<T>>::transpose
transpose(r) ==
    IF r.kind = "Err" THEN <<r>>
    ELSE IF r.value = <<>> THEN <<>> ELSE <<Ok(r.value[1])>>

\* the filter_map closure of fetch
FetchItem(where, item) ==
    IF item.kind = "Err" THEN <<item>>
    ELSE LET check == FilterCheck(where, item.value.row) IN
         transpose(IF check.kind = "Err" THEN check
                   ELSE Ok(as_some(check.value,
                                   [columns |-> TableColumns,
                                    key |-> item.value.key,
                                    row |-> item.value.row])))

(***************************************************************************)
(* Expr::try_from(ExprNode).  A node and an expression are records with a  *)
(* tag; an Option<Box<_>> is a sequence of length 0 or 1.                  *)
(***************************************************************************)
Panic == [kind |-> "Panic", error |-> "called Result::unwrap() on an Err value"]

\* parse_expr followed by translate_expr
ParseSql(sql) ==
    IF sql = "1 + 1"
    THEN Ok([tag |-> "BinaryOp", left |-> NumberLit(10), op |-> "Plus",
             right |-> NumberLit(10)])
    ELSE Err("SqlParserError")

\* Expr::try_from(FunctionNode)
FunctionTryFrom(func) ==
    IF func = "ABS(a)" THEN Ok([tag |-> "Function", func |-> "ABS(a)"])
    ELSE Err("FunctionArgError")

\* Aggregate::try_from(AggregateNode)
AggregateTryFrom(aggr) ==
    IF aggr = "COUNT(a)" THEN Ok([tag |-> "Count", expr |-> "a"])
    ELSE Err("AggregateArgError")

\* the first result of a sequence that is no Ok, 0 when all are Ok
FirstNotOk(results) ==
    LET bad == {i \in 1..Len(results) : results[i].kind # "Ok"} IN
    IF bad = {} THEN 0 ELSE CHOOSE i \in bad : \A j \in bad : i <= j

Values(results) == [i \in 1..Len(results) |-> results[i].value]

\* a chain of `?`: the first error (or panic) in evaluation order, else
\* the converted children
Try(results) ==
    IF FirstNotOk(results) # 0 THEN results[FirstNotOk(results)]
    ELSE Ok(Values(results))

\* a chain of unwrap(): the first failure in evaluation order panics
Unwrap(results) ==
    IF FirstNotOk(results) # 0 THEN Panic ELSE Ok(Values(results))

RECURSIVE TryFrom(_)
TryFrom(node) ==
    LET All(nodes) == [i \in 1..Len(nodes) |-> TryFrom(nodes[i])]
        Pairs(when_then) ==
            [i \in 1..(2 * Len(when_then)) |->
                TryFrom(when_then[(i + 1) \div 2][2 - (i % 2)])]
        Then(r, build(_)) == IF r.kind = "Ok" THEN Ok(build(r.value)) ELSE r
    IN
    CASE node.tag = "Expr" -> Ok(node.expr)
      [] node.tag = "SqlExpr" -> ParseSql(node.sql)
      [] node.tag = "Identifier" ->
            Ok([tag |-> "Identifier", ident |-> node.ident])
      [] node.tag = "CompoundIdentifier" ->
            Ok([tag |-> "CompoundIdentifier", idents |-> node.idents])
      [] node.tag = "Between" ->
            LET build(v) == [tag |-> "Between", expr |-> v[1],
                             negated |-> node.negated,
                             low |-> v[2], high |-> v[3]]
            IN  Then(Try(All(<<node.expr, node.low, node.high>>)), build)
      [] node.tag = "BinaryOp" ->
            LET build(v) == [tag |-> "BinaryOp", left |-> v[1],
                             op |-> node.op, right |-> v[2]]
            IN  Then(Try(All(<<node.left, node.right>>)), build)
      [] node.tag \in {"UnaryOp", "Extract"} ->
            LET build(v) == [tag |-> node.tag, op |-> node.op, expr |-> v[1]]
            IN  Then(Try(All(<<node.expr>>)), build)
      [] node.tag \in {"IsNull", "IsNotNull", "Nested"} ->
            LET build(v) == [tag |-> node.tag, expr |-> v[1]]
            IN  Then(Try(All(<<node.expr>>)), build)
      [] node.tag = "InList" ->
            LET build(v) == [tag |-> "InList", expr |-> v[1],
                             list |-> Tail(v), negated |-> node.negated]
            IN  Then(Try(All(<<node.expr>> \o node.list)), build)
      [] node.tag = "Function" -> FunctionTryFrom(node.func)
      [] node.tag = "Aggregate" ->
            LET build(v) == [tag |-> "Aggregate", aggr |-> v[1]]
            IN  Then(Try(<<AggregateTryFrom(node.aggr)>>), build)
      [] node.tag = "Case" ->
            LET n == Len(node.operand)
                m == 2 * Len(node.when_then)
                build(v) ==
                    [tag |-> "Case",
                     operand |-> SubSeq(v, 1, n),
                     when_then |-> [i \in 1..Len(node.when_then) |->
                                      <<v[n + 2 * i - 1], v[n + 2 * i]>>],
                     else_result |-> SubSeq(v, n + m + 1, Len(v))]
            IN  Then(Unwrap(All(node.operand) \o Pairs(node.when_then)
                                \o All(node.else_result)), build)

\* the ExprNode trees of a depth up to d
LeafNodes ==
    {[tag |-> "Expr", expr |-> NumberLit(10)],
     [tag |-> "SqlExpr", sql |-> "1 + 1"],
     [tag |-> "SqlExpr", sql |-> "1 +"],
     [tag |-> "Identifier", ident |-> "a"],
     [tag |-> "CompoundIdentifier", idents |-> <<"t", "a">>],
     [tag |-> "Function", func |-> "ABS(a)"],
     [tag |-> "Function", func |-> "ABS(1 +)"],
     [tag |-> "Aggregate", aggr |-> "COUNT(a)"],
     [tag |-> "Aggregate", aggr |-> "COUNT(1 +)"]}

RECURSIVE ExprNodes(_)
ExprNodes(d) ==
    IF d <= 1 THEN LeafNodes
    ELSE LET N == ExprNodes(d - 1)
             Opt == SeqsUpTo(N, 1)
         IN  N
             \cup {[tag |-> "Between", expr |-> e, negated |-> FALSE,
                    low |-> l, high |-> h] : e \in N, l \in N, h \in N}
             \cup {[tag |-> "BinaryOp", left |-> l, op |-> "Plus", right |-> r] :
                    l \in N, r \in N}
             \cup {[tag |-> "UnaryOp", op |-> "Minus", expr |-> e] : e \in N}
             \cup {[tag |-> "Extract", op |-> "Year", expr |-> e] : e \in N}
             \cup {[tag |-> t, expr |-> e] :
                    t \in {"IsNull", "IsNotNull", "Nested"}, e \in N}
             \cup {[tag |-> "InList", expr |-> e, list |-> l, negated |-> FALSE] :
                    e \in N, l \in SeqsUpTo(N, MaxList)}
             \cup {[tag |-> "Case", operand |-> o, when_then |-> w,
                    else_result |-> e] :
                    o \in Opt, w \in SeqsUpTo(N \X N, 1), e \in Opt}

(***************************************************************************)
(* The scan of into_rows, one tuple at a time.                             *)
(***************************************************************************)
IdleSelect ==
    /\ query = Query("Values", <<>>, "", FALSE, NoOrder, <<>>, NoExpr, NoExpr)
    /\ storage = <<>>
    /\ spc = "idle"
    /\ sel_error = ""
    /\ sel_labels = <<>>
    /\ stream = <<>>
    /\ out = <<>>
    /\ n_evaluated = 0
    /\ with_labels = TRUE

IdleFilter ==
    /\ f_rows = <<>>
    /\ f_where = ""
    /\ w_pos = 0
    /\ w_out = <<>>
    /\ f_pos = 0
    /\ f_out = <<>>

IdleExpr ==
    /\ expr_node = [tag |-> "Identifier", ident |-> "a"]
    /\ lowered = Ok(<<>>)
    /\ epc = "idle"

IdleScan ==
    /\ first_len = 0
    /\ labels = <<>>
    /\ column_types = <<>>
    /\ idx = 0
    /\ n_rows = 0
    /\ cur_exprs = <<>>
    /\ cur_item = Ok(<<>>)

IdleLabels ==
    /\ projection = <<>>
    /\ table_alias = "t"
    /\ columns = <<>>
    /\ join_columns = NoJoinColumns
    /\ labels_result = Ok(<<>>)
    /\ lpc = "idle"

InitScan ==
    /\ IdleLabels
    /\ IdleSelect
    /\ IdleFilter
    /\ IdleExpr
    /\ first_len \in 1..MaxArity
    /\ labels = Labels(first_len)
    /\ column_types = [j \in 1..first_len |-> None]
    /\ idx = 0
    /\ n_rows = 0
    /\ cur_exprs = <<>>
    /\ cur_item = Ok(<<>>)

ScanNext ==
    /\ idx < MaxTuples
    /\ \E exprs \in Tuples :
        /\ idx = 0 => Len(exprs) = first_len
        /\ LET s == ScanStep(first_len, column_types, exprs) IN
            /\ column_types' = s.types
            /\ cur_item' = s.item
            /\ cur_exprs' = exprs
    /\ idx' = idx + 1
    /\ n_rows' = n_rows + 1
    /\ UNCHANGED <<first_len, labels>>
    /\ UNCHANGED <<labelVars, selVars, filterVars, exprVars>>

NextScan == ScanNext

SpecIntoRows == InitScan /\ [][NextScan]_vars

(***************************************************************************)
(* A call of get_labels.                                                   *)
(***************************************************************************)
InitLabels ==
    /\ IdleScan
    /\ IdleSelect
    /\ IdleFilter
    /\ IdleExpr
    /\ projection \in SeqsUpTo(SelectItems, MaxItems)
    /\ table_alias = "t"
    /\ columns \in ColumnsChoices
    /\ join_columns \in JoinColumnsChoices
    /\ labels_result = Ok(<<>>)
    /\ lpc = "call"

GetLabels ==
    /\ lpc = "call"
    /\ labels_result' = get_labels(projection, table_alias, columns, join_columns)
    /\ lpc' = "done"
    /\ UNCHANGED <<projection, table_alias, columns, join_columns>>
    /\ UNCHANGED <<scanVars, selVars, filterVars, exprVars>>

NextLabels == GetLabels

SpecLabels == InitLabels /\ [][NextLabels]_vars

(***************************************************************************)
(* A call of select_with_labels, then a consumer polling the returned      *)
(* stream item by item.                                                    *)
(***************************************************************************)
Init ==
    /\ IdleScan
    /\ IdleLabels
    /\ IdleFilter
    /\ IdleExpr
    /\ \/ query \in ValuesQueries /\ storage = <<>> /\ with_labels = TRUE
       \/ /\ query \in PlainQueries \cup GroupQueries
          /\ storage \in SeqsUpTo(TableRows, MaxRows)
          /\ with_labels = TRUE
       \/ /\ query \in EdgeQueries
          /\ storage \in SeqsUpTo(TableRows, MaxRows)
          /\ with_labels \in BOOLEAN
    /\ spc = "call"
    /\ sel_error = ""
    /\ sel_labels = <<>>
    /\ stream = <<>>
    /\ out = <<>>
    /\ n_evaluated = 0

Call ==
    /\ spc = "call"
    /\ LET r == select_with_labels(query, storage, with_labels) IN
        /\ spc' = IF r.ok THEN "stream" ELSE "failed"
        /\ sel_error' = r.error
        /\ sel_labels' = r.labels
        /\ stream' = r.rows
        /\ n_evaluated' = r.evaluated
    /\ UNCHANGED <<query, storage, out, with_labels>>
    /\ UNCHANGED <<scanVars, labelVars, filterVars, exprVars>>

Poll ==
    /\ spc = "stream"
    /\ stream # <<>>
    /\ out' = Append(out, Head(stream))
    /\ stream' = Tail(stream)
    /\ UNCHANGED <<query, storage, spc, sel_error, sel_labels, n_evaluated,
                   with_labels>>
    /\ UNCHANGED <<scanVars, labelVars, filterVars, exprVars>>

Next == Call \/ Poll

Spec == Init /\ [][Next]_vars

(***************************************************************************)
(* The filtering step polled item by item: the WHERE stage of              *)
(* select_with_labels and the filter_map of fetch over the same upstream.  *)
(***************************************************************************)
InitFilter ==
    /\ IdleScan
    /\ IdleLabels
    /\ IdleSelect
    /\ IdleExpr
    /\ f_rows \in SeqsUpTo(TableRows, MaxRows)
    /\ f_where \in WhereChoices
    /\ w_pos = 0
    /\ w_out = <<>>
    /\ f_pos = 0
    /\ f_out = <<>>

PollWhere ==
    /\ w_pos < Len(f_rows)
    /\ w_pos' = w_pos + 1
    /\ w_out' = w_out \o WhereItem(f_where, FetchContexts(f_rows)[w_pos + 1])
    /\ UNCHANGED <<f_rows, f_where, f_pos, f_out>>
    /\ UNCHANGED <<scanVars, labelVars, selVars, exprVars>>

PollFetch ==
    /\ f_pos < Len(f_rows)
    /\ f_pos' = f_pos + 1
    /\ f_out' = f_out \o FetchItem(f_where, GetData(f_rows)[f_pos + 1])
    /\ UNCHANGED <<f_rows, f_where, w_pos, w_out>>
    /\ UNCHANGED <<scanVars, labelVars, selVars, exprVars>>

NextFilter == PollWhere \/ PollFetch

SpecFilter == InitFilter /\ [][NextFilter]_vars

(***************************************************************************)
(* A call of Expr::try_from.                                               *)
(***************************************************************************)
InitExpr ==
    /\ IdleScan
    /\ IdleLabels
    /\ IdleSelect
    /\ IdleFilter
    /\ expr_node \in ExprNodes(MaxDepth)
    /\ lowered = Ok(<<>>)
    /\ epc = "call"

Lower ==
    /\ epc = "call"
    /\ lowered' = TryFrom(expr_node)
    /\ epc' = "done"
    /\ UNCHANGED expr_node
    /\ UNCHANGED <<scanVars, labelVars, selVars, filterVars>>

NextExpr == Lower

SpecExpr == InitExpr /\ [][NextExpr]_vars

(***************************************************************************)
(* Claims about into_rows (specification SpecIntoRows).                    *)
(***************************************************************************)

\* C1: on the VALUES path a tuple whose number of expressions differs from
\* the first tuple's yields NumberOfValuesDifferent at its own position (one
\* item per tuple), and every row produced has exactly as many values as
\* the first tuple.
C1_ArityChecked ==
    idx >= 1 =>
        /\ n_rows = idx
        /\ (Len(cur_exprs) # first_len
                => cur_item = Err("NumberOfValuesDifferent"))
        /\ (cur_item.kind = "Ok"
                => Len(cur_item.value) = first_len
                    /\ Len(cur_exprs) = first_len)

C1_Witness ==
    /\ idx >= 2
    /\ Len(cur_exprs) > first_len
    /\ cur_item = Err("NumberOfValuesDifferent")

\* C2 as claimed: a column's type comes from the first row only, so no
\* row after the first changes any column type.
C2_TypeFromFirstRowOnly ==
    [][idx >= 1 => column_types' = column_types]_vars

\* C2 as amended: a column's type is inferred from the first row whose
\* value in that column is evaluated successfully and is not NULL; once
\* inferred it never changes, and every later value of the column is
\* coerced to it by try_into_value.
C2_TypeFromFirstTypedRow ==
    [][\A j \in 1..first_len :
        /\ column_types[j] # None => column_types'[j] = column_types[j]
        /\ (cur_item'.kind = "Ok" /\ column_types[j] # None)
                => Ok(cur_item'.value[j])
                    = try_into_value(cur_exprs'[j], column_types[j], TRUE)
        /\ (cur_item'.kind = "Ok" /\ column_types[j] = None)
                => /\ Ok(cur_item'.value[j]) = try_into(cur_exprs'[j])
                   /\ column_types'[j] = get_type(cur_item'.value[j])
      ]_vars

C2_Witness ==
    /\ idx >= 2
    /\ cur_item.kind = "Ok"
    /\ \E j \in 1..first_len :
        /\ column_types[j] = "Float"
        /\ cur_exprs[j] = NumberLit(10)
        /\ cur_item.value[j] = F64(10)

(***************************************************************************)
(* Claims about get_labels (specification SpecLabels).                     *)
(***************************************************************************)
JoinAliases == {join_columns.list[i].alias : i \in 1..Len(join_columns.list)}

\* the columns of the first joined relation with the alias
JoinedColumns(alias) ==
    LET first == CHOOSE i \in 1..Len(join_columns.list) :
                    /\ join_columns.list[i].alias = alias
                    /\ \A j \in 1..(i - 1) : join_columns.list[j].alias # alias
    IN  join_columns.list[first].columns

\* C3: for a projection that is one qualified wildcard alias.*, get_labels
\* returns the base relation's columns when alias is the base alias, the
\* joined relation's columns when alias is a joined relation's, and the
\* error TableAliasNotFound(alias) for every other alias, whatever
\* join_columns is (None and the empty list included).
C3_QualifiedWildcard ==
    (lpc = "done" /\ Len(projection) = 1
        /\ projection[1].item = "QualifiedWildcard" /\ projection[1].name # "")
    => LET alias == projection[1].name IN
       IF alias = table_alias THEN labels_result = Ok(columns)
       ELSE IF alias \in JoinAliases
       THEN labels_result = Ok(JoinedColumns(alias))
       ELSE labels_result = Err("TableAliasNotFound(" \o alias \o ")")

\* the labels C4 expects of one projection item
RECURSIVE AllJoinedColumns(_)
AllJoinedColumns(n) ==
    IF n = 0 THEN <<>>
    ELSE AllJoinedColumns(n - 1) \o join_columns.list[n].columns

Resolves(item) ==
    item.item = "QualifiedWildcard"
        => item.name = table_alias \/ item.name \in JoinAliases

ExpectedItemLabels(item) ==
    CASE item.item = "Wildcard" ->
            columns \o AllJoinedColumns(Len(join_columns.list))
      [] item.item = "Expr" -> <<item.name>>
      [] OTHER -> IF item.name = table_alias THEN columns
                  ELSE JoinedColumns(item.name)

RECURSIVE ExpectedLabels(_)
ExpectedLabels(n) ==
    IF n = 0 THEN <<>>
    ELSE ExpectedLabels(n - 1) \o ExpectedItemLabels(projection[n])

\* C4: when every qualified wildcard names a relation of the query, the
\* labels are the concatenation, in projection order, of each item's
\* labels: an unqualified wildcard gives the base relation's columns
\* followed by every joined relation's columns in join order, an
\* expression its one label; only the projection and the column-name lists
\* decide them.
C4_LabelsConcatenated ==
    (lpc = "done" /\ \A i \in 1..Len(projection) : Resolves(projection[i]))
    => labels_result = Ok(ExpectedLabels(Len(projection)))

C4_Witness ==
    /\ lpc = "done"
    /\ Len(projection) = 2
    /\ projection[1] = Wildcard
    /\ projection[2].item = "QualifiedWildcard"
    /\ Len(join_columns.list) = 2
    /\ labels_result = Ok(<<"a", "b", "c", "d", "e", "c">>)

(***************************************************************************)
(* Claims about select_with_labels and its stream (specification Spec).    *)
(***************************************************************************)
Received == out \o stream

\* C5: the stream of a VALUES query without LIMIT and OFFSET ends at its
\* first error item: once the consumer has received an error item it
\* receives no further item.
C5_StreamEndsAtFirstError ==
    (query.body = "Values" /\ ~query.limit.is_some /\ ~query.offset.is_some)
    => \A i \in 1..Len(out) : out[i].kind = "Err" => i = Len(out)

\* a LIMIT/OFFSET expression is a valid row count
ValidCount(opt) ==
    ~opt.is_some \/ (opt.expr.tenths % 10 = 0 /\ opt.expr.tenths >= 0)

Unlimited ==
    select_with_labels([query EXCEPT !.limit = NoExpr, !.offset = NoExpr],
                       storage, with_labels)

\* C6: with offset o (0 when missing) and limit l (unbounded when missing)
\* over an upstream of n items, the stream yields max(0, min(l, n - o))
\* items, the items o+1 .. o+l of the stream without LIMIT/OFFSET, in the
\* same order, on the VALUES and on the SELECT path.
C6_LimitOffsetSlice ==
    spc = "stream" =>
        LET upstream == Unlimited.rows
            n == Len(upstream)
            o == IF query.offset.is_some
                 THEN query.offset.expr.tenths \div 10 ELSE 0
            l == IF query.limit.is_some
                 THEN query.limit.expr.tenths \div 10 ELSE n
        IN  /\ Len(Received) = Max(0, Min(l, n - o))
            /\ \A i \in 1..Len(Received) : Received[i] = upstream[o + i]

C6_Witness ==
    /\ spc = "stream"
    /\ stream = <<>>
    /\ query.body = "Select"
    /\ query.offset = SomeExpr(NumberLit(10))
    /\ query.limit = SomeExpr(NumberLit(10))
    /\ Len(Unlimited.rows) = 3
    /\ out = <<Unlimited.rows[2]>>

\* C7: with an invalid LIMIT or OFFSET select_with_labels returns an error
\* and no stream, on both paths: no labels, no row evaluated by the call,
\* no item ever yielded, whatever the rows are.  The error is Limit::new's
\* unless, on the SELECT path, the base relation is unknown or the labels
\* fail, which are found first.
C7_InvalidLimitFails ==
    (spc # "call" /\ ~(ValidCount(query.limit) /\ ValidCount(query.offset)))
    => /\ spc = "failed"
       /\ sel_error # ""
       /\ (query.body = "Values" \/ query \in PlainQueries \cup GroupQueries)
            => sel_error = "ImpossibleCast"
       /\ sel_labels = <<>>
       /\ stream = <<>>
       /\ out = <<>>
       /\ n_evaluated = 0

C7_Witness ==
    /\ spc = "failed"
    /\ query.body = "Values"
    /\ Len(query.values_list) = 2
    /\ query.limit = SomeExpr(NumberLit(10))
    /\ query.offset = SomeExpr(NumberLit(0 - 10))

\* the k-th smallest member of a set of indices
Nth(S, k) == CHOOSE i \in S : Cardinality({j \in S : j < i}) = k - 1

\* the members of seq at the indices in S, in order
AtIndices(seq, S) == [k \in 1..Cardinality(S) |-> seq[Nth(S, k)]]

NoFailure ==
    /\ \A i \in 1..Len(storage) :
        /\ storage[i].kind = "Ok"
        /\ FilterCheck(query.where, storage[i].value).kind = "Ok"
    /\ \A i \in 1..Len(query.projection) :
        query.projection[i].item = "QualifiedWildcard"
            => query.projection[i].name = "t"

\* the rows of the table that satisfy the WHERE predicate, in table order
PassingRows ==
    LET S == {i \in 1..Len(storage) :
                FilterCheck(query.where, storage[i].value).value}
    IN  [k \in 1..Cardinality(S) |->
            [a |-> storage[Nth(S, k)].value.a,
             b |-> storage[Nth(S, k)].value.b, cnt |-> 0]]

\* one row per value of a among the passing rows, in order of first
\* appearance, with the number of passing rows of that value
GroupedRows ==
    LET rows == PassingRows
        S == {i \in 1..Len(rows) : \A j \in 1..(i - 1) : rows[j].a # rows[i].a}
        firsts == AtIndices(rows, S)
    IN  [k \in 1..Len(firsts) |->
            [firsts[k] EXCEPT !.cnt =
                Cardinality({i \in 1..Len(rows) : rows[i].a = firsts[k].a})]]

\* rows ordered by the ORDER BY key, rows of equal key in upstream order
OrderedRows(rows) ==
    LET key(r) == LET v == IF query.order_by.col = "a" THEN r.a ELSE r.b
                  IN  IF query.order_by.desc THEN 0 - v ELSE v
        rank(i) == 1 + Cardinality({j \in 1..Len(rows) :
                        \/ key(rows[j]) < key(rows[i])
                        \/ key(rows[j]) = key(rows[i]) /\ j < i})
    IN  IF ~query.order_by.is_some THEN rows
        ELSE [k \in 1..Len(rows) |->
                rows[CHOOSE i \in 1..Len(rows) : rank(i) = k]]

ProjectedRow(r) ==
    CASE query.group_by -> <<r.a, r.cnt>>
      [] query.projection[1].item \in {"Wildcard", "QualifiedWildcard"}
            -> <<r.a, r.b>>
      [] OTHER -> <<r.a>>

ExpectedRows ==
    LET rows == OrderedRows(IF query.group_by THEN GroupedRows ELSE PassingRows)
        o == IF query.offset.is_some
             THEN query.offset.expr.tenths \div 10 ELSE 0
        l == IF query.limit.is_some
             THEN query.limit.expr.tenths \div 10 ELSE Len(rows)
    IN  [i \in 1..Max(0, Min(l, Len(rows) - o)) |-> Ok(ProjectedRow(rows[o + i]))]

\* C8: a SELECT whose rows and predicate do not fail yields the rows that
\* pass WHERE, then grouped (the counts are of passing rows only), then
\* ordered by the ORDER BY key of the unprojected row, then projected,
\* then sliced by OFFSET/LIMIT.
C8_StageOrder ==
    (spc = "stream" /\ query.body = "Select" /\ NoFailure)
    => Received = ExpectedRows

\* SELECT a FROM t ORDER BY b DESC LIMIT 1 OFFSET 1 over (1,10), (2,30),
\* (3,20), with b in tens, has yielded exactly (3)
C8_Witness ==
    /\ spc = "stream"
    /\ query = Query("Select", <<>>, "", FALSE, OrderBy("b", TRUE),
                     <<ExprItem("a")>>, SomeExpr(NumberLit(10)),
                     SomeExpr(NumberLit(10)))
    /\ storage = <<Ok([a |-> 1, b |-> 1]), Ok([a |-> 2, b |-> 3]),
                   Ok([a |-> 3, b |-> 2])>>
    /\ stream = <<>>
    /\ out = <<Ok(<<3>>)>>

(***************************************************************************)
(* Claims about the filtering step (specification SpecFilter).             *)
(***************************************************************************)
Check(i) == FilterCheck(f_where, f_rows[i].value)

\* the upstream items, among the first n, that the filtering step emits
Emitting(n) ==
    {i \in 1..n : f_rows[i].kind = "Ok" /\ Check(i).kind = "Ok" => Check(i).value}

\* what the WHERE stage emits for upstream item i
WhereEmits(i) ==
    IF f_rows[i].kind = "Err" THEN f_rows[i]
    ELSE IF Check(i).kind = "Err" THEN Check(i)
    ELSE f_rows[i]

\* what fetch emits for upstream item i
FetchEmits(i) ==
    IF f_rows[i].kind = "Err" THEN f_rows[i]
    ELSE IF Check(i).kind = "Err" THEN Check(i)
    ELSE Ok([columns |-> TableColumns, key |-> i, row |-> f_rows[i].value])

\* C9: the WHERE stage and fetch emit, in upstream order, exactly the items
\* whose check is true; an item whose check is false is dropped; an
\* upstream error and an error of the check are emitted as error items at
\* that item's position.
C9_FilterEmits ==
    /\ w_out = [k \in 1..Cardinality(Emitting(w_pos)) |->
                    WhereEmits(Nth(Emitting(w_pos), k))]
    /\ f_out = [k \in 1..Cardinality(Emitting(f_pos)) |->
                    FetchEmits(Nth(Emitting(f_pos), k))]

C9_Witness ==
    /\ w_pos = 3
    /\ f_pos = 3
    /\ f_where = "1 / (b - 1) > 0"
    /\ f_rows = <<Ok([a |-> 3, b |-> 2]), Ok([a |-> 1, b |-> 1]),
                  Ok([a |-> 2, b |-> 3])>>
    /\ w_out = <<Ok([a |-> 3, b |-> 2]), Err("DivisorShouldNotBeZero")>>
    /\ Len(f_out) = 2

(***************************************************************************)
(* Claims about Expr::try_from (specification SpecExpr).                   *)
(***************************************************************************)
\* a leaf whose conversion fails
FailingLeaf(node) ==
    \/ node.tag = "SqlExpr" /\ ParseSql(node.sql).kind = "Err"
    \/ node.tag = "Function" /\ FunctionTryFrom(node.func).kind = "Err"
    \/ node.tag = "Aggregate" /\ AggregateTryFrom(node.aggr).kind = "Err"

\* the nodes directly under a node
Children(node) ==
    CASE node.tag = "Between" -> {node.expr, node.low, node.high}
      [] node.tag = "BinaryOp" -> {node.left, node.right}
      [] node.tag \in {"UnaryOp", "Extract", "IsNull", "IsNotNull", "Nested"}
            -> {node.expr}
      [] node.tag = "InList" ->
            {node.expr} \cup {node.list[i] : i \in 1..Len(node.list)}
      [] node.tag = "Case" ->
            {node.operand[i] : i \in 1..Len(node.operand)}
                \cup {node.when_then[i][1] : i \in 1..Len(node.when_then)}
                \cup {node.when_then[i][2] : i \in 1..Len(node.when_then)}
                \cup {node.else_result[i] : i \in 1..Len(node.else_result)}
      [] OTHER -> {}

RECURSIVE HasFailingNode(_)
HasFailingNode(node) ==
    FailingLeaf(node) \/ \E c \in Children(node) : HasFailingNode(c)

\* C10: Expr::try_from ends in Ok or Err and never panics: Ok when every
\* nested node converts, Err when some nested node fails to convert, a
\* Case node included.
C10_NeverPanics ==
    epc = "done" =>
        /\ lowered.kind \in {"Ok", "Err"}
        /\ lowered.kind = "Err" <=> HasFailingNode(expr_node)

====
